---- MODULE Spec2Model ----
(***************************************************************************)
(* Model of the T-Bills India dashboard script (src/T-bills_india.py).     *)
(*                                                                         *)
(* One render of the page is one top-to-bottom run of the script.  The     *)
(* state is the file behind the fixed path, the memo of load_data, the     *)
(* script's data frames and the elements written to the page.              *)
(*                                                                         *)
(* Encoding of values                                                      *)
(*   period label  : record [kind, a, b]                                   *)
(*        "monyy"  a = month number, b = two-digit year  ("Jan 24")        *)
(*        "iso"    a = year, b = month                   ("2024-03")       *)
(*        "text"   no date at all                        ("Qtr1")          *)
(*        "na"     an empty cell                                           *)
(*   timestamp     : integer yyyymmdd, NaT for a missing one               *)
(*   yield         : integer, tenths of a percent, NaN for a missing one   *)
(*   data frame    : [header |-> column names, rows |-> sequence of rows]  *)
(*   every row carries idx, its pandas index label                         *)
(***************************************************************************)
EXTENDS Integers, Sequences, FiniteSets, TLC

\* ------------------------------------------------------------------ bounds
MaxRows == 2

MaxTenors == 2

MaxCells == 4

MaxRenders == 2

RunYear == 2026

\* ---------------------------------------------------------- missing values
NaT == -1

NaN == -1

\* ------------------------------------------------------------ input domain
PeriodCol == "Period"

Jan24 == [kind |-> "monyy", a |-> 1, b |-> 24]

Feb24 == [kind |-> "monyy", a |-> 2, b |-> 24]

Iso2403 == [kind |-> "iso", a |-> 2024, b |-> 3]

Qtr1 == [kind |-> "text", a |-> 0, b |-> 0]

NaLabel == [kind |-> "na", a |-> 0, b |-> 0]

Labels == {Jan24, Feb24, Iso2403, Qtr1, NaLabel}

TenorNames == {"3 Month", "6 Month", "91 Day"}

Yields == {NaN, 68}

Injective(f) == \A i, j \in DOMAIN f : f[i] = f[j] => i = j

Headers ==
  {h \in UNION {[1..n -> TenorNames] : n \in 0..MaxTenors} : Injective(h)}

WideRows(c, r) == [1..r -> [Period : Labels, cells : [1..c -> Yields]]]

Shapes ==
  {s \in Headers \X (0..MaxRows) : Len(s[1]) * s[2] <= MaxCells}

Tables ==
  UNION {{[header |-> <<PeriodCol>> \o s[1], rows |-> rs] :
            rs \in WideRows(Len(s[1]), s[2])} : s \in Shapes}

EmptyDF == [header |-> <<>>, rows |-> <<>>]

Files ==
  {[status |-> "missing", table |-> EmptyDF],
   [status |-> "corrupt", table |-> EmptyDF]}
    \cup {[status |-> "ok", table |-> t] : t \in Tables}

\* ------------------------------------------------------- pandas primitives
\* The emptiness test with its negation lost.
IsEmptyInverted(df) == ~(Len(df.header) = 0 \/ Len(df.rows) = 0)

\* DataFrame.empty: some axis has length 0.
IsEmpty(df) == Len(df.header) = 0 \/ Len(df.rows) = 0

\* pd.to_datetime(label, format='%b %y') on one label: the month name and a
\* two-digit year (pivot 69), day 1; an empty cell is NaT; anything else fails.
FixedOk(l) == l.kind \in {"monyy", "na"}

FixedParse(l) ==
  IF l.kind = "monyy"
    THEN (IF l.b >= 69 THEN 1900 + l.b ELSE 2000 + l.b) * 10000 + l.a * 100 + 1
    ELSE NaT

\* pd.to_datetime(label) with no format: what a label can become.  An ISO
\* label is its first day; "Jan 24" is read by the generic parser as day 24 of
\* January of the running year, or rejected when the format inferred from
\* another label is applied to it; text has no reading.  0 stands for reject.
GenericOutcomes(l) ==
  CASE l.kind = "na" -> {NaT}
    [] l.kind = "iso" -> {l.a * 10000 + l.b * 100 + 1, 0}
    [] l.kind = "monyy" -> {RunYear * 10000 + l.a * 100 + l.b, 0}
    [] OTHER -> {0}

\* Series.unique(): first occurrences, in order.
RECURSIVE Unique(_)
Unique(s) ==
  IF s = <<>> THEN <<>>
  ELSE LET u == Unique(SubSeq(s, 1, Len(s) - 1))
           x == s[Len(s)]
       IN IF \E i \in 1..Len(u) : u[i] = x THEN u ELSE Append(u, x)

Perms(S) == {p \in [1..Cardinality(S) -> S] : Injective(p)}

RECURSIVE Ascending(_)
Ascending(S) ==
  IF S = {} THEN <<>>
  ELSE LET m == CHOOSE x \in S : \A y \in S : x <= y
       IN <<m>> \o Ascending(S \ {m})

\* The orders the default sort (kind='quicksort', not stable) can give to the
\* positions in I, all with a present key: ascending by key, equal keys in
\* any order.
RECURSIVE Arrange(_, _)
Arrange(keys, I) ==
  IF I = {} THEN {<<>>}
  ELSE LET m == CHOOSE x \in {keys[i] : i \in I} :
                  \A y \in {keys[i] : i \in I} : x <= y
           G == {i \in I : keys[i] = m}
       IN {p \o r : p \in Perms(G), r \in Arrange(keys, I \ G)}

\* nargsort with na_position='last': the positions with a present key sorted,
\* then the positions with a missing key (-1) in their input order.
ArgsortOutcomes(keys) ==
  LET present == {i \in DOMAIN keys : keys[i] # -1}
      missing == {i \in DOMAIN keys : keys[i] = -1}
  IN {p \o Ascending(missing) : p \in Arrange(keys, present)}

Take(s, p) == [i \in 1..Len(p) |-> s[p[i]]]

\* DataFrame.sort_values(by='Period_Datetime')
SortByDatetime(rows) ==
  {Take(rows, p) :
     p \in ArgsortOutcomes([i \in 1..Len(rows) |-> rows[i].Period_Datetime])}

RECURSIVE SelectRows(_, _)
SelectRows(s, keep) ==
  IF s = <<>> THEN <<>>
  ELSE LET r == SelectRows(SubSeq(s, 1, Len(s) - 1), keep)
       IN IF keep[Len(s)] THEN Append(r, s[Len(s)]) ELSE r

\* Series == value: a missing value equals nothing, itself included.
LabelEq(a, b) == a.kind # "na" /\ b.kind # "na" /\ a = b

\* ------------------------------------------------------------------- state
VARIABLES file, cache, reads, renders, pc, out, tbill_data_df, plot_df,
          tenor_cols, long_df, trace_i, df_tenor, long_df_chronological,
          all_periods, selected_period, filtered_df_for_slider, y_axis,
          plot_df_sorted, dates_for_3d, z_values_3d, heatmap_df

page == <<tbill_data_df, plot_df, tenor_cols, long_df, trace_i, df_tenor,
          long_df_chronological, all_periods, selected_period,
          filtered_df_for_slider, y_axis, plot_df_sorted, dates_for_3d,
          z_values_3d, heatmap_df>>

vars == <<file, cache, reads, renders, pc, out, page>>

NoEntry == [present |-> FALSE, value |-> EmptyDF, shown |-> <<>>]

NoAxis == [min |-> NaN, max |-> NaN]

NoHeatmap == [index |-> <<>>, columns |-> <<>>, values |-> <<>>]

\* The script's names before the run has bound them.
Fresh ==
  /\ tbill_data_df = EmptyDF
  /\ plot_df = EmptyDF
  /\ tenor_cols = <<>>
  /\ long_df = <<>>
  /\ trace_i = 1
  /\ df_tenor = <<>>
  /\ long_df_chronological = <<>>
  /\ all_periods = <<>>
  /\ selected_period = NaLabel
  /\ filtered_df_for_slider = <<>>
  /\ y_axis = NoAxis
  /\ plot_df_sorted = <<>>
  /\ dates_for_3d = <<>>
  /\ z_values_3d = <<>>
  /\ heatmap_df = NoHeatmap

Init ==
  /\ file \in Files
  /\ cache = NoEntry
  /\ reads = 0
  /\ renders = 1
  /\ pc = "load"
  /\ out = <<>>
  /\ Fresh

\* pd.read_excel(file_path) inside load_data's try/except.
ReadExcel(f) ==
  CASE f.status = "ok" -> [value |-> f.table, shown |-> <<>>]
    [] f.status = "missing" -> [value |-> EmptyDF, shown |-> <<"error_not_found">>]
    [] OTHER -> [value |-> EmptyDF, shown |-> <<"error_load">>]

\* load_data without the memo: every call reads the file.
load_data_uncached(c, f) ==
  [entry |-> [present |-> TRUE, value |-> ReadExcel(f).value,
              shown |-> ReadExcel(f).shown],
   read |-> 1]

\* load_data under st.cache_data: the body runs when the memo has no entry
\* for the path; the value and the elements it showed are stored and replayed.
load_data(c, f) ==
  IF c.present
    THEN [entry |-> c, read |-> 0]
    ELSE [entry |-> [present |-> TRUE, value |-> ReadExcel(f).value,
                     shown |-> ReadExcel(f).shown],
          read |-> 1]

\* tbill_data_df = load_data(...); st.title(...)
LoadData ==
  /\ pc = "load"
  /\ LET r == load_data(cache, file)
     IN /\ cache' = r.entry
        /\ reads' = reads + r.read
        /\ tbill_data_df' = r.entry.value
        /\ out' = out \o r.entry.shown \o <<"title">>
  /\ pc' = "branch"
  /\ UNCHANGED <<file, renders, plot_df, tenor_cols, long_df, trace_i,
                 df_tenor, long_df_chronological, all_periods,
                 selected_period, filtered_df_for_slider, y_axis,
                 plot_df_sorted, dates_for_3d, z_values_3d, heatmap_df>>

\* The readings pd.to_datetime(column) can give a whole column.
GenericColumn(labels) ==
  {g \in [DOMAIN labels -> UNION {GenericOutcomes(l) : l \in Labels}] :
     \A i \in DOMAIN labels : g[i] \in GenericOutcomes(labels[i])}

WithDatetime(df, ts) ==
  [header |-> Append(df.header, "Period_Datetime"),
   rows |-> [i \in 1..Len(df.rows) |->
               [idx |-> i, Period |-> df.rows[i].Period,
                Period_Datetime |-> ts[i], cells |-> df.rows[i].cells]]]

\* plot_df = tbill_data_df.copy(); the try/except that adds Period_Datetime.
\* The fixed format is applied to the whole column; one label it rejects
\* sends the whole column to the generic parse, whose ValueError is not caught.
DerivePeriodDatetime ==
  /\ pc = "branch"
  /\ ~IsEmpty(tbill_data_df)
  /\ LET labels == [i \in 1..Len(tbill_data_df.rows) |->
                      tbill_data_df.rows[i].Period]
     IN IF \A i \in DOMAIN labels : FixedOk(labels[i])
          THEN /\ plot_df' = WithDatetime(tbill_data_df,
                                [i \in DOMAIN labels |-> FixedParse(labels[i])])
               /\ out' = out
               /\ pc' = "melt"
          ELSE \E g \in GenericColumn(labels) :
                 IF \E i \in DOMAIN g : g[i] = 0
                   THEN /\ plot_df' = [header |-> tbill_data_df.header,
                                       rows |-> <<>>]
                        /\ out' = out \o <<"warning", "exception">>
                        /\ pc' = "aborted"
                   ELSE /\ plot_df' = WithDatetime(tbill_data_df, g)
                        /\ out' = Append(out, "warning")
                        /\ pc' = "melt"
  /\ UNCHANGED <<file, cache, reads, renders, tbill_data_df, tenor_cols,
                 long_df, trace_i, df_tenor, long_df_chronological,
                 all_periods, selected_period, filtered_df_for_slider, y_axis,
                 plot_df_sorted, dates_for_3d, z_values_3d, heatmap_df>>

\* [col for col in plot_df.columns if col not in [period_column_name, 'Period_Datetime']]
TenorCols(header) ==
  SelectSeq(header, LAMBDA c : c \notin {header[1], "Period_Datetime"})

\* Position of a column among the cells of a wide row.
CellOf(header, row, col) ==
  row.cells[(CHOOSE k \in 1..Len(header) : header[k] = col) - 1]

\* A melt that drops the rows whose value is missing.
MeltDropNa(df, cols) ==
  LET r == Len(df.rows)
      all == [k \in 1..(r * Len(cols)) |->
                LET j == ((k - 1) \div r) + 1
                    i == ((k - 1) % r) + 1
                IN [idx |-> k, Period |-> df.rows[i].Period,
                    Period_Datetime |-> df.rows[i].Period_Datetime,
                    Tenor |-> cols[j],
                    Yield |-> CellOf(df.header, df.rows[i], cols[j])]]
  IN SelectRows(all, [k \in 1..Len(all) |-> all[k].Yield # NaN])

\* A melt that takes every value from the first value column.
MeltFirstColumn(df, cols) ==
  LET r == Len(df.rows)
  IN [k \in 1..(r * Len(cols)) |->
        LET j == ((k - 1) \div r) + 1
            i == ((k - 1) % r) + 1
        IN [idx |-> k, Period |-> df.rows[i].Period,
            Period_Datetime |-> df.rows[i].Period_Datetime,
            Tenor |-> cols[j],
            Yield |-> CellOf(df.header, df.rows[i], cols[1])]]

\* DataFrame.melt: for each value column in turn, one row per input row,
\* missing values included; the result has a new RangeIndex.
Melt(df, cols) ==
  LET r == Len(df.rows)
  IN [k \in 1..(r * Len(cols)) |->
        LET j == ((k - 1) \div r) + 1
            i == ((k - 1) % r) + 1
        IN [idx |-> k, Period |-> df.rows[i].Period,
            Period_Datetime |-> df.rows[i].Period_Datetime,
            Tenor |-> cols[j],
            Yield |-> CellOf(df.header, df.rows[i], cols[j])]]

MeltStep ==
  /\ pc = "melt"
  /\ tenor_cols' = TenorCols(plot_df.header)
  /\ long_df' = Melt(plot_df, TenorCols(plot_df.header))
  /\ trace_i' = 1
  /\ pc' = "trace"
  /\ UNCHANGED <<file, cache, reads, renders, out, tbill_data_df, plot_df,
                 df_tenor, long_df_chronological, all_periods,
                 selected_period, filtered_df_for_slider, y_axis,
                 plot_df_sorted, dates_for_3d, z_values_3d, heatmap_df>>

\* One pass of `for i, tenor in enumerate(tenor_cols)`.
TimeSeriesTrace ==
  /\ pc = "trace"
  /\ trace_i <= Len(tenor_cols)
  /\ df_tenor' \in SortByDatetime(
        SelectRows(long_df, [k \in 1..Len(long_df) |->
                               long_df[k].Tenor = tenor_cols[trace_i]]))
  /\ trace_i' = trace_i + 1
  /\ UNCHANGED <<file, cache, reads, renders, pc, out, tbill_data_df, plot_df,
                 tenor_cols, long_df, long_df_chronological, all_periods,
                 selected_period, filtered_df_for_slider, y_axis,
                 plot_df_sorted, dates_for_3d, z_values_3d, heatmap_df>>

\* fig.update_layout(...); st.plotly_chart(fig); then the sort of long_df and
\* the list of slider options.
Chronological ==
  /\ pc = "trace"
  /\ trace_i > Len(tenor_cols)
  /\ \E s \in SortByDatetime(long_df) :
       /\ long_df_chronological' = s
       /\ all_periods' = Unique([k \in 1..Len(s) |-> s[k].Period])
  /\ out' = Append(out, "chart_time_series")
  /\ pc' = "slider"
  /\ UNCHANGED <<file, cache, reads, renders, tbill_data_df, plot_df,
                 tenor_cols, long_df, trace_i, df_tenor, selected_period,
                 filtered_df_for_slider, y_axis, plot_df_sorted, dates_for_3d,
                 z_values_3d, heatmap_df>>

\* st.select_slider(options=all_periods, value=all_periods[-1]): the default
\* is evaluated first (IndexError on an empty list); the value returned is the
\* option the user has the slider on.
Slider ==
  /\ pc = "slider"
  /\ IF all_periods = <<>>
       THEN /\ out' = Append(out, "exception")
            /\ pc' = "aborted"
            /\ UNCHANGED selected_period
       ELSE /\ \E k \in 1..Len(all_periods) : selected_period' = all_periods[k]
            /\ out' = Append(out, "slider")
            /\ pc' = "curve"
  /\ UNCHANGED <<file, cache, reads, renders, tbill_data_df, plot_df,
                 tenor_cols, long_df, trace_i, df_tenor,
                 long_df_chronological, all_periods, filtered_df_for_slider,
                 y_axis, plot_df_sorted, dates_for_3d, z_values_3d,
                 heatmap_df>>

tenor_order ==
  <<"7 Day", "14 Day", "1 Month", "2 Month", "3 Month", "4 Month", "5 Month",
    "6 Month", "7 Month", "8 Month", "9 Month", "10 Month", "11 Month",
    "12 Month">>

TenorNaN == "nan"

\* Categorical codes: the position in the categories, -1 for a value that is
\* not one of them.
Code(t) ==
  IF \E k \in 1..Len(tenor_order) : tenor_order[k] = t
    THEN (CHOOSE k \in 1..Len(tenor_order) : tenor_order[k] = t) - 1
    ELSE -1

\* pd.Categorical(values, categories=tenor_order): a value that is not a
\* category becomes NaN.
Categorical(rows) ==
  [k \in 1..Len(rows) |->
     [rows[k] EXCEPT !.Tenor = IF Code(rows[k].Tenor) = -1 THEN TenorNaN
                               ELSE rows[k].Tenor]]

\* The sort by tenor with na_position='first'.
SortByTenorNaFirst(rows) ==
  LET keys == [k \in 1..Len(rows) |->
                 IF rows[k].Tenor = TenorNaN THEN -1 ELSE Code(rows[k].Tenor)]
  IN {Take(rows, Ascending({i \in DOMAIN keys : keys[i] = -1}) \o p) :
        p \in Arrange(keys, {i \in DOMAIN keys : keys[i] # -1})}

\* sort_values(by='Tenor') on the categorical column: by code, NaN last.
SortByTenor(rows) ==
  {Take(rows, p) :
     p \in ArgsortOutcomes([k \in 1..Len(rows) |->
                              IF rows[k].Tenor = TenorNaN THEN -1
                              ELSE Code(rows[k].Tenor)])}

FilterPeriod(rows, label) ==
  SelectRows(rows, [k \in 1..Len(rows) |-> LabelEq(rows[k].Period, label)])

\* Series.min() / max(): missing values skipped, NaN when nothing is left.
PresentYields(rows) ==
  {rows[k].Yield : k \in 1..Len(rows)} \ {NaN}

YieldMin(rows) ==
  IF PresentYields(rows) = {} THEN NaN
  ELSE CHOOSE x \in PresentYields(rows) : \A y \in PresentYields(rows) : x <= y

YieldMax(rows) ==
  IF PresentYields(rows) = {} THEN NaN
  ELSE CHOOSE x \in PresentYields(rows) : \A y \in PresentYields(rows) : x >= y

YieldPad == 2

\* y_axis_min, y_axis_max: a comparison with NaN is false.
AxisRange(rows) ==
  [min |-> IF YieldMin(rows) # NaN /\ YieldMin(rows) - YieldPad >= 0
             THEN YieldMin(rows) - YieldPad ELSE 0,
   max |-> IF YieldMax(rows) = NaN THEN NaN ELSE YieldMax(rows) + YieldPad]

\* The slice for the selected period, its axis range and the curve chart.
YieldCurve ==
  /\ pc = "curve"
  /\ \E s \in SortByTenor(Categorical(
                 FilterPeriod(long_df_chronological, selected_period))) :
       /\ filtered_df_for_slider' = s
       /\ y_axis' = AxisRange(s)
  /\ out' = Append(out, "chart_yield_curve")
  /\ pc' = "surface"
  /\ UNCHANGED <<file, cache, reads, renders, tbill_data_df, plot_df,
                 tenor_cols, long_df, trace_i, df_tenor,
                 long_df_chronological, all_periods, selected_period,
                 plot_df_sorted, dates_for_3d, z_values_3d, heatmap_df>>

\* plot_df_sorted, dates_for_3d, z_values_3d and the surface chart.
Surface3D ==
  /\ pc = "surface"
  /\ \E s \in SortByDatetime(plot_df.rows) :
       /\ plot_df_sorted' = s
       /\ dates_for_3d' = Unique([k \in 1..Len(s) |-> s[k].Period])
       /\ z_values_3d' = [k \in 1..Len(s) |->
                            [j \in 1..Len(tenor_cols) |->
                               CellOf(plot_df.header, s[k], tenor_cols[j])]]
  /\ out' = Append(out, "chart_3d")
  /\ pc' = "heatmap"
  /\ UNCHANGED <<file, cache, reads, renders, tbill_data_df, plot_df,
                 tenor_cols, long_df, trace_i, df_tenor,
                 long_df_chronological, all_periods, selected_period,
                 filtered_df_for_slider, y_axis, heatmap_df>>

\* pd.to_datetime(..., format='%b %y', errors='coerce'): a label the fixed
\* format rejects becomes NaT.
CoerceParse(l) == IF FixedOk(l) THEN FixedParse(l) ELSE NaT

\* heatmap_df: a copy of the loaded table, sorted by the coerced timestamp,
\* indexed by the period label, restricted to the tenor columns.  (In the
\* source the `with col2:` of line 301 has no indented body; the statements
\* that follow it are taken as that body.)
Heatmap ==
  /\ pc = "heatmap"
  /\ LET df == WithDatetime(tbill_data_df,
                  [i \in 1..Len(tbill_data_df.rows) |->
                     CoerceParse(tbill_data_df.rows[i].Period)])
     IN \E s \in SortByDatetime(df.rows) :
          heatmap_df' =
            [index |-> [k \in 1..Len(s) |-> s[k].Period],
             columns |-> tenor_cols,
             values |-> [k \in 1..Len(s) |->
                           [j \in 1..Len(tenor_cols) |->
                              CellOf(tbill_data_df.header, s[k], tenor_cols[j])]]]
  /\ out' = Append(out, "chart_heatmap")
  /\ pc' = "done"
  /\ UNCHANGED <<file, cache, reads, renders, tbill_data_df, plot_df,
                 tenor_cols, long_df, trace_i, df_tenor,
                 long_df_chronological, all_periods, selected_period,
                 filtered_df_for_slider, y_axis, plot_df_sorted, dates_for_3d,
                 z_values_3d>>

\* else: st.info("No T-Bills data available. ...")
NoData ==
  /\ pc = "branch"
  /\ IsEmpty(tbill_data_df)
  /\ out' = Append(out, "info")
  /\ pc' = "done"
  /\ UNCHANGED <<file, cache, reads, renders, page>>

\* A later run of the script in the same process: the names are bound anew,
\* the memo of load_data stays.
Rerun ==
  /\ pc \in {"done", "aborted"}
  /\ renders < MaxRenders
  /\ renders' = renders + 1
  /\ pc' = "load"
  /\ out' = <<>>
  /\ tbill_data_df' = EmptyDF
  /\ plot_df' = EmptyDF
  /\ tenor_cols' = <<>>
  /\ long_df' = <<>>
  /\ trace_i' = 1
  /\ df_tenor' = <<>>
  /\ long_df_chronological' = <<>>
  /\ all_periods' = <<>>
  /\ selected_period' = NaLabel
  /\ filtered_df_for_slider' = <<>>
  /\ y_axis' = NoAxis
  /\ plot_df_sorted' = <<>>
  /\ dates_for_3d' = <<>>
  /\ z_values_3d' = <<>>
  /\ heatmap_df' = NoHeatmap
  /\ UNCHANGED <<file, cache, reads>>

\* Files for the runs that exercise the memo: unreadable, or one period row
\* with one tenor column.
CacheFiles ==
  {f \in Files :
     f.status = "ok" =>
       /\ f.table.header = <<PeriodCol, "3 Month">>
       /\ Len(f.table.rows) = 1}

\* Between two runs the file behind the path is deleted, damaged or rewritten.
FileChanges ==
  /\ pc \in {"done", "aborted"}
  /\ file' \in CacheFiles \ {file}
  /\ UNCHANGED <<cache, reads, renders, pc, out, page>>

Next ==
  \/ LoadData
  \/ DerivePeriodDatetime
  \/ MeltStep
  \/ TimeSeriesTrace
  \/ Chronological
  \/ Slider
  \/ YieldCurve
  \/ Surface3D
  \/ Heatmap
  \/ NoData

Spec == Init /\ [][Next]_vars

InitCache == Init /\ file \in CacheFiles

NextCache == Next \/ Rerun \/ FileChanges

SpecCache == InitCache /\ [][NextCache]_vars

\* ------------------------------------------------------------ properties
AfterMelt == {"trace", "slider", "curve", "surface", "heatmap", "done"}

AfterChrono == {"slider", "curve", "surface", "heatmap", "done"}

AfterCurve == {"surface", "heatmap", "done"}

AfterSurface == {"heatmap", "done"}

\* A table with no column or no row.
Blank(df) == df.header = <<>> \/ df.rows = <<>>

\* The run works on a table with data and stands at one of the places S.
At(S) == pc \in S /\ ~Blank(tbill_data_df)

Charts ==
  {"chart_time_series", "slider", "chart_yield_curve", "chart_3d",
   "chart_heatmap"}

Shown(e) == \E k \in 1..Len(out) : out[k] = e

\* The tenor columns of the wide table: all but the first column and
\* Period_Datetime.
WideTenors == {c \in 2..Len(plot_df.header) : plot_df.header[c] # "Period_Datetime"}

TidyCount(label, ts, tenor, yield) ==
  Cardinality({k \in 1..Len(long_df) :
                 /\ long_df[k].Period = label
                 /\ long_df[k].Period_Datetime = ts
                 /\ long_df[k].Tenor = tenor
                 /\ long_df[k].Yield = yield})

WideCount(label, ts, tenor, yield) ==
  Cardinality({ic \in (1..Len(plot_df.rows)) \X WideTenors :
                 /\ plot_df.rows[ic[1]].Period = label
                 /\ plot_df.rows[ic[1]].Period_Datetime = ts
                 /\ plot_df.header[ic[2]] = tenor
                 /\ plot_df.rows[ic[1]].cells[ic[2] - 1] = yield})

\* C1: the melt of a wide table with r rows and t tenor columns has exactly
\* r*t tidy rows, one for each (row, tenor column) pair: every cell's (label,
\* timestamp, tenor, yield) occurs among the tidy rows as often as among the
\* cells, a missing yield included.
C1_MeltCrossProduct ==
  At(AfterMelt) =>
    /\ Len(long_df) = Len(plot_df.rows) * Cardinality(WideTenors)
    /\ \A i \in 1..Len(plot_df.rows) : \A c \in WideTenors :
         LET row == plot_df.rows[i]
         IN TidyCount(row.Period, row.Period_Datetime, plot_df.header[c],
                      row.cells[c - 1])
              = WideCount(row.Period, row.Period_Datetime, plot_df.header[c],
                          row.cells[c - 1])

C1_Witness ==
  /\ At(AfterMelt)
  /\ Len(plot_df.rows) = 2
  /\ Cardinality(WideTenors) = 2
  /\ Len(long_df) = 4
  /\ \E k \in 1..Len(long_df) : long_df[k].Yield = NaN
  /\ \E k \in 1..Len(long_df) : long_df[k].Yield # NaN

\* C2: a load that fails (file missing or unparseable) yields the empty table
\* and the run goes on; from an empty table the only step is the 'no data'
\* message: no derived view is built and no slider or chart is shown.
C2_EmptyIsTerminal ==
  /\ [][(pc = "load" /\ ~cache.present /\ file.status # "ok")
          => (pc' = "branch" /\ tbill_data_df' = EmptyDF)]_vars
  /\ [][(pc = "branch" /\ Blank(tbill_data_df))
          => (pc' = "done" /\ out' = Append(out, "info") /\ UNCHANGED page)]_vars
  /\ []((pc # "load" /\ Blank(tbill_data_df)) =>
          /\ pc \in {"branch", "done"}
          /\ \A k \in 1..Len(out) : out[k] \notin Charts \cup {"exception"}
          /\ plot_df = EmptyDF /\ long_df = <<>> /\ all_periods = <<>>
          /\ filtered_df_for_slider = <<>> /\ plot_df_sorted = <<>>
          /\ z_values_3d = <<>> /\ heatmap_df = NoHeatmap)

C2_Witness ==
  /\ pc = "done"
  /\ file.status = "missing"
  /\ tbill_data_df = EmptyDF
  /\ out = <<"error_not_found", "title", "info">>

\* C3 (as claimed): a label that neither the fixed pattern nor the generic
\* parse accepts gets a missing timestamp and the run goes on: the row is kept
\* and every other label is parsed with the fixed pattern.
C3_UnparseableLabelIsSoft ==
  (/\ pc \notin {"load", "branch"}
   /\ \E i \in 1..Len(tbill_data_df.rows) :
        tbill_data_df.rows[i].Period.kind = "text")
    => /\ pc # "aborted"
       /\ Len(plot_df.rows) = Len(tbill_data_df.rows)
       /\ \A i \in 1..Len(plot_df.rows) :
            plot_df.rows[i].Period_Datetime
              = CoerceParse(tbill_data_df.rows[i].Period)

\* res is inp sorted ascending by timestamp, rows with equal timestamps and
\* rows with a missing timestamp in their input order, the missing ones last.
\* (inp is in ascending idx order.)
StableChronological(inp, res) ==
  /\ Len(res) = Len(inp)
  /\ {res[k] : k \in 1..Len(res)} = {inp[k] : k \in 1..Len(inp)}
  /\ \A a, b \in 1..Len(res) :
       a < b =>
         LET x == res[a]
             y == res[b]
         IN IF x.Period_Datetime = NaT
              THEN y.Period_Datetime = NaT /\ x.idx < y.idx
              ELSE \/ y.Period_Datetime = NaT
                   \/ x.Period_Datetime < y.Period_Datetime
                   \/ x.Period_Datetime = y.Period_Datetime /\ x.idx < y.idx

\* C4 (as claimed): each sort by Period_Datetime is a stable ascending sort.
C4_ChronologicalIsStable ==
  /\ At(AfterChrono) => StableChronological(long_df, long_df_chronological)
  /\ At(AfterSurface) => StableChronological(plot_df.rows, plot_df_sorted)

\* C5 (as claimed): sorting the chronologically sorted rows again gives the
\* same sequence.
C5_ChronologicalIdempotent ==
  At(AfterChrono) =>
    \A s \in SortByDatetime(long_df_chronological) : s = long_df_chronological

\* The rows handed to the sort by tenor, in their order before it.
SliceInput == FilterPeriod(long_df_chronological, selected_period)

PosIn(rows, idx) == CHOOSE k \in 1..Len(rows) : rows[k].idx = idx

Canonical(idx) == Code(long_df[idx].Tenor) # -1

\* C6: after the sort by tenor every row with a canonical tenor precedes every
\* row with a tenor outside the canonical list, the canonical rows are in
\* list order, and the other rows are in their order before the sort.
C6_ByTenorOrder ==
  At(AfterCurve) =>
    LET res == filtered_df_for_slider
    IN /\ Len(res) = Len(SliceInput)
       /\ {res[k].idx : k \in 1..Len(res)}
            = {SliceInput[k].idx : k \in 1..Len(SliceInput)}
       /\ \A a, b \in 1..Len(res) :
            a < b =>
              LET x == res[a].idx
                  y == res[b].idx
              IN /\ Canonical(y) => Canonical(x)
                 /\ (Canonical(x) /\ Canonical(y)) =>
                      Code(long_df[x].Tenor) <= Code(long_df[y].Tenor)
                 /\ (~Canonical(x) /\ ~Canonical(y)) =>
                      PosIn(SliceInput, x) < PosIn(SliceInput, y)

C6_Witness ==
  /\ At(AfterCurve)
  /\ Len(filtered_df_for_slider) = 4
  /\ Cardinality({k \in 1..4 : ~Canonical(filtered_df_for_slider[k].idx)}) = 2
  /\ ~Canonical(SliceInput[1].idx)
  /\ Canonical(filtered_df_for_slider[1].idx)

\* C7 (as claimed): the slice holds exactly the tidy rows whose period label
\* is the selected one, each with its period label, tenor and yield unchanged.
C7_SliceKeepsRows ==
  At(AfterCurve) =>
    LET res == filtered_df_for_slider
    IN /\ {res[k].idx : k \in 1..Len(res)}
            = {k \in 1..Len(long_df) :
                 LabelEq(long_df[k].Period, selected_period)}
       /\ \A k \in 1..Len(res) :
            /\ res[k].Period = long_df[res[k].idx].Period
            /\ res[k].Tenor = long_df[res[k].idx].Tenor
            /\ res[k].Yield = long_df[res[k].idx].Yield

\* Re-pivot of the tidy rows: the yields grouped under (period label, tenor).
PivotCell(tidy, label, tenor) ==
  {tidy[k].Yield : k \in {n \in 1..Len(tidy) :
                            tidy[n].Period = label /\ tidy[n].Tenor = tenor}}

RoundTrip ==
  \A i \in 1..Len(plot_df.rows) : \A c \in WideTenors :
    PivotCell(long_df, plot_df.rows[i].Period, plot_df.header[c])
      = {plot_df.rows[i].cells[c - 1]}

DistinctLabels ==
  \A i, j \in 1..Len(plot_df.rows) :
    plot_df.rows[i].Period = plot_df.rows[j].Period => i = j

\* C8 (as claimed): for every wide table, repeated period labels included,
\* the re-pivot of the melt gives back the yield of every cell.
C8_RoundTripAnyTable == At(AfterMelt) => RoundTrip

\* C8 (amended): for every wide table whose period labels are pairwise
\* distinct, the re-pivot of the melt gives back the yield of every cell, a
\* missing yield staying missing.
C8_RoundTripDistinctLabels ==
  (At(AfterMelt) /\ DistinctLabels) => RoundTrip

C8_Witness ==
  /\ At(AfterMelt)
  /\ DistinctLabels
  /\ Len(plot_df.rows) = 2
  /\ Cardinality(WideTenors) = 2
  /\ \E i \in 1..2 : plot_df.rows[i].cells = <<NaN, 68>>
  /\ \E i \in 1..2 : plot_df.rows[i].cells = <<68, NaN>>

\* C9: the file is read at most once; once the memo holds a table no step
\* changes it, whatever happens to the file; and every run works on the table
\* the first load returned, the empty one of a failed first load included.
C9_LoadedOnce ==
  /\ [](reads <= 1)
  /\ [][cache.present => cache' = cache]_vars
  /\ [][(pc = "load" /\ ~cache.present)
          => (reads' = 1 /\ cache'.value = ReadExcel(file).value)]_vars
  /\ [](pc # "load" => (cache.present /\ tbill_data_df = cache.value))

C9_Witness ==
  /\ renders = 2
  /\ pc = "done"
  /\ reads = 1
  /\ file.status = "ok"
  /\ cache.present
  /\ cache.value = EmptyDF
  /\ tbill_data_df = EmptyDF
  /\ Shown("error_not_found")

MaxDatetime ==
  CHOOSE m \in {long_df[k].Period_Datetime : k \in 1..Len(long_df)} :
    \A k \in 1..Len(long_df) : long_df[k].Period_Datetime <= m

\* C10 (as claimed): for a non-empty table the surface's period labels are as
\* many as the rows of z, the i-th label being the period of the i-th row, and
\* the slider's default all_periods[-1] exists and labels a row with the
\* greatest timestamp.
C10_AxesLineUp ==
  /\ At(AfterSurface) =>
       /\ Len(dates_for_3d) = Len(z_values_3d)
       /\ \A k \in 1..Len(dates_for_3d) :
            dates_for_3d[k] = plot_df_sorted[k].Period
  /\ At(AfterChrono) =>
       /\ all_periods # <<>>
       /\ \E k \in 1..Len(long_df) :
            /\ long_df[k].Period = all_periods[Len(all_periods)]
            /\ long_df[k].Period_Datetime # NaT
            /\ long_df[k].Period_Datetime = MaxDatetime
====
